---- MODULE Spec2Model ----
(***************************************************************************)
(* ec2ctl: multi-region inventory collection (getAccountSummary +          *)
(* GetDeployedInstances), the confirmation prompt, and the dispatch of     *)
(* start / stop / hibernate / terminate / modify-type to the provider.     *)
(*                                                                         *)
(* One command invocation is one behaviour: the inputs (command, --regions *)
(* flag, instance-id arguments, --force) are fixed by Init, the provider's *)
(* answers (success or error of every call) and the operator's replies are *)
(* chosen nondeterministically when the call or the prompt happens.         *)
(***************************************************************************)
EXTENDS Naturals, Sequences, FiniteSets

\* ------------------------------------------------------------------ bounds

\* Longest --regions list given on the command line.
MaxRegions == 2

\* Most instances the provider holds in the region of the single query.
MaxHeld == 2

\* ------------------------------------------------------- program constants

InstanceStart == "start"
InstanceStop == "stop"
InstanceStatus == "status"
InstanceHibernate == "hibernate"
DryRunOperation == "DryRunOperation"

\* The action string the terminate and modify commands pass to collection.
NoAction == ""

\* ------------------------------------------------------------ the provider

\* Region codes of the account, in the order DescribeRegions lists them.
AllRegions == <<"eu-west-1", "us-east-1">>

RegionNames == {AllRegions[i] : i \in 1..Len(AllRegions)}

\* A pointer field of a provider record: <<>> is nil, <<v>> points to v.
Ptr(v) == <<v>>

\* A tag of an instance.
Tag(key, value) == [Key |-> key, Value |-> value]

\* The state-reason code of an instance the operator sent into hibernation.
UserInitiatedHibernate == "Client.UserInitiatedHibernate"

\* A types.Instance as DescribeInstances returns it (the fields the program
\* reads), with the availability zone DescribeInstanceStatus reports for it.
RawInstance(id, state, reason, ip, hib, lifecycle, spot, tags, az) ==
  [InstanceId |-> id, State |-> state, StateReason |-> reason,
   InstanceType |-> "t3.micro", PrivateIpAddress |-> ip,
   HibernationOptions |-> hib, InstanceLifecycle |-> lifecycle,
   SpotInstanceRequestId |-> spot, Tags |-> tags, AvailabilityZone |-> az]

\* An on-demand instance with all optional fields present.
PlainInstance(id, state, ip, env, name, az) ==
  RawInstance(Ptr(id), state, <<>>, Ptr(ip), Ptr(FALSE), "", <<>>,
              <<Tag("Environment", env), Tag("Name", name)>>, Ptr(az))

\* The instances the provider holds per region, in the order DescribeInstances
\* lists them.
Inventory ==
  [r \in RegionNames |->
     IF r = "us-east-1"
     THEN << PlainInstance("i-aaa", "stopped", "10.0.0.1", "prod", "web", "us-east-1a"),
             PlainInstance("i-ccc", "running", "10.0.0.3", "dev", "db", "us-east-1b") >>
     ELSE << PlainInstance("i-bbb", "running", "10.0.0.2", "dev", "api", "eu-west-1a") >>]

\* The spot requests DescribeSpotInstanceRequests lists.
SpotRequests == << [SpotInstanceRequestId |-> "sir-1", Type |-> "persistent"] >>

\* Byte-wise order of the tag values in use (Go's < on strings).
TagOrder == <<"", "api", "db", "dev", "prod", "web">>

StrRank(s) == CHOOSE i \in 1..Len(TagOrder) : TagOrder[i] = s

SeqToSet(s) == {s[i] : i \in 1..Len(s)}

RECURSIVE SelectSeq2(_, _, _)
\* The elements of s that satisfy member-of-set test on field f, in order.
SelectSeq2(s, ok, i) ==
  IF i > Len(s) THEN <<>>
  ELSE (IF s[i] \in ok THEN <<s[i]>> ELSE <<>>) \o SelectSeq2(s, ok, i + 1)

\* ------------------------------------------------------ GetDeployedInstances

\* The instance-state-name filter built from the action.
StateFilter(action) ==
  IF action = InstanceStop THEN {"running"}
  ELSE IF action = InstanceStart THEN {"stopped"}
  ELSE {"pending", "running", "shutting-down", "stopping", "stopped"}

\* A types.Filter.
Filter(name, values) == [Name |-> name, Values |-> values]

\* As TagFilters, but building no tag filter.
TagFiltersNone(tagMap) == {}

\* One filter "tag:<key>" with the single value per entry of the tags map (a
\* set of <<key, value>> pairs, one per key).
TagFilters(tagMap) == {Filter(<<"tag", kv[1]>>, {kv[2]}) : kv \in tagMap}

\* The instance-id filter, built only for a non-empty id list.
IdFilter(instanceIDs) ==
  IF Len(instanceIDs) # 0
  THEN {Filter(<<"instance-id">>, SeqToSet(instanceIDs))} ELSE {}

\* The Filters of the DescribeInstancesInput.
Filters(action, tagMap, instanceIDs) ==
  {Filter(<<"instance-state-name">>, StateFilter(action))}
    \cup TagFilters(tagMap) \cup IdFilter(instanceIDs)

\* The provider's rule for one filter: the instance has one of the values.
FilterMatches(inst, f) ==
  IF f.Name = <<"instance-state-name">> THEN inst.State \in f.Values
  ELSE IF f.Name = <<"instance-id">>
       THEN inst.InstanceId # <<>> /\ inst.InstanceId[1] \in f.Values
  ELSE \E t \in SeqToSet(inst.Tags) : t.Key = f.Name[2] /\ t.Value \in f.Values

\* What the provider returns for DescribeInstances: the instances it holds
\* that match every filter, in its order.
DescribeInstances(held, filters) ==
  SelectSeq2(held, {x \in SeqToSet(held) : \A f \in filters : FilterMatches(x, f)}, 1)

\* What DescribeInstanceStatus returns under the state filter with
\* IncludeAllInstances: id and availability zone of the instances that have one.
DescribeInstanceStatus(held, action) ==
  LET ok == {x \in SeqToSet(held) :
               /\ x.State \in StateFilter(action)
               /\ x.InstanceId # <<>> /\ x.AvailabilityZone # <<>>}
      sel == SelectSeq2(held, ok, 1)
  IN [i \in 1..Len(sel) |-> [InstanceId |-> sel[i].InstanceId[1],
                             AvailabilityZone |-> sel[i].AvailabilityZone[1]]]

\* getInstanceAZ: the zone of the first status entry with the id, else "".
getInstanceAZ(statuses, id) ==
  LET at == {i \in 1..Len(statuses) : statuses[i].InstanceId = id}
  IN IF at = {} THEN ""
     ELSE statuses[CHOOSE i \in at : \A j \in at : i <= j].AvailabilityZone

\* getSpotRequestType: the type of the first request with the id, else "".
getSpotRequestType(requests, id) ==
  LET at == {i \in 1..Len(requests) : requests[i].SpotInstanceRequestId = id}
  IN IF at = {} THEN ""
     ELSE requests[CHOOSE i \in at : \A j \in at : i <= j].Type

\* `var instance Instance`: the zero value.
ZeroInstance ==
  [Name |-> "", ID |-> "", Status |-> "", Type |-> "", Lifecycle |-> "",
   Environment |-> "", IP |-> "", SpotInstanceType |-> "", Region |-> "",
   AZ |-> "", Hibernation |-> FALSE]

\* As IsHibernated, but without the test of the state.
IsHibernatedAnyState(inst) ==
  inst.StateReason # <<>> /\ inst.StateReason[1] = UserInitiatedHibernate

\* The test that turns the status into "hibernated".
IsHibernated(inst) ==
  /\ inst.StateReason # <<>>
  /\ inst.StateReason[1] = UserInitiatedHibernate /\ inst.State = "stopped"

RECURSIVE LastTag(_, _, _)
\* The value of the last tag with the key, or dflt: the loop over inst.Tags.
LastTag(tagSeq, key, dflt) ==
  IF tagSeq = <<>> THEN dflt
  ELSE LastTag(Tail(tagSeq), key,
               IF Head(tagSeq).Key = key THEN Head(tagSeq).Value ELSE dflt)

\* As Classify, but assigning the region only under the id test, as the id
\* and the zone are.
ClassifyRegionUnderIdTest(instance, inst, region, statuses, spots) ==
  [ID |-> IF inst.InstanceId # <<>> THEN inst.InstanceId[1] ELSE instance.ID,
   Status |-> IF IsHibernated(inst) THEN "hibernated" ELSE inst.State,
   Type |-> inst.InstanceType,
   IP |-> IF inst.PrivateIpAddress # <<>>
          THEN inst.PrivateIpAddress[1] ELSE instance.IP,
   Hibernation |-> IF inst.HibernationOptions # <<>>
                   THEN inst.HibernationOptions[1] ELSE instance.Hibernation,
   Region |-> IF inst.InstanceId # <<>> THEN region ELSE instance.Region,
   AZ |-> IF inst.InstanceId # <<>>
          THEN getInstanceAZ(statuses, inst.InstanceId[1]) ELSE instance.AZ,
   SpotInstanceType |->
     IF inst.InstanceLifecycle = "spot" /\ inst.SpotInstanceRequestId # <<>>
     THEN getSpotRequestType(spots, inst.SpotInstanceRequestId[1]) ELSE "",
   Lifecycle |-> IF inst.InstanceLifecycle = "" THEN "on-demand"
                 ELSE inst.InstanceLifecycle,
   Name |-> LastTag(inst.Tags, "Name", ""),
   Environment |-> LastTag(inst.Tags, "Environment", "")]

\* One pass of the classification loop's body: `instance`, which is declared
\* outside the loop and so enters with the values of the pass before, as it
\* is appended for the raw instance inst.
Classify(instance, inst, region, statuses, spots) ==
  [ID |-> IF inst.InstanceId # <<>> THEN inst.InstanceId[1] ELSE instance.ID,
   Status |-> IF IsHibernated(inst) THEN "hibernated" ELSE inst.State,
   Type |-> inst.InstanceType,
   IP |-> IF inst.PrivateIpAddress # <<>>
          THEN inst.PrivateIpAddress[1] ELSE instance.IP,
   Hibernation |-> IF inst.HibernationOptions # <<>>
                   THEN inst.HibernationOptions[1] ELSE instance.Hibernation,
   Region |-> region,
   AZ |-> IF inst.InstanceId # <<>>
          THEN getInstanceAZ(statuses, inst.InstanceId[1]) ELSE instance.AZ,
   SpotInstanceType |->
     IF inst.InstanceLifecycle = "spot" /\ inst.SpotInstanceRequestId # <<>>
     THEN getSpotRequestType(spots, inst.SpotInstanceRequestId[1]) ELSE "",
   Lifecycle |-> IF inst.InstanceLifecycle = "" THEN "on-demand"
                 ELSE inst.InstanceLifecycle,
   Name |-> LastTag(inst.Tags, "Name", ""),
   Environment |-> LastTag(inst.Tags, "Environment", "")]

RECURSIVE ClassifyAll(_, _, _, _, _)
\* The slice the classification loop builds from the raw instances.
ClassifyAll(instance, raw, region, statuses, spots) ==
  IF raw = <<>> THEN <<>>
  ELSE LET next == Classify(instance, Head(raw), region, statuses, spots)
       IN <<next>> \o ClassifyAll(next, Tail(raw), region, statuses, spots)

\* As Less, but comparing the names only.
LessByName(a, b) == StrRank(a.Name) < StrRank(b.Name)

\* The comparison handed to sort.SliceStable.
Less(a, b) ==
  IF StrRank(a.Environment) < StrRank(b.Environment) THEN TRUE
  ELSE IF StrRank(a.Environment) > StrRank(b.Environment) THEN FALSE
  ELSE StrRank(a.Name) < StrRank(b.Name)

\* As InsertStable, but placing x before the entries that equal it.
InsertBeforeEqual(s, x) ==
  LET after == {i \in 1..Len(s) : ~Less(s[i], x)}
  IN IF after = {} THEN Append(s, x)
     ELSE LET k == CHOOSE i \in after : \A j \in after : i <= j
          IN SubSeq(s, 1, k - 1) \o <<x>> \o SubSeq(s, k, Len(s))

InsertStable(s, x) ==
  LET after == {i \in 1..Len(s) : Less(x, s[i])}
  IN IF after = {} THEN Append(s, x)
     ELSE LET k == CHOOSE i \in after : \A j \in after : i <= j
          IN SubSeq(s, 1, k - 1) \o <<x>> \o SubSeq(s, k, Len(s))

RECURSIVE SortSliceStable(_)
SortSliceStable(s) ==
  IF s = <<>> THEN <<>>
  ELSE InsertStable(SortSliceStable(SubSeq(s, 1, Len(s) - 1)), s[Len(s)])

\* The instances of a region task that got all three describe calls answered.
BuildInstances(region, action, tagMap, instanceIDs) ==
  LET held == Inventory[region]
      raw == DescribeInstances(held, Filters(action, tagMap, instanceIDs))
  IN SortSliceStable(ClassifyAll(ZeroInstance, raw, region,
                                 DescribeInstanceStatus(held, action), SpotRequests))

\* ------------------------------------------------------------------- state

VARIABLES
  cmd,                \* the command being run
  regionsFlag,        \* the --regions flag (global `regions`)
  instances,          \* the instance-id arguments
  force,              \* terminate's --force flag
  tags,               \* the --tag flag (global `tags`): a set of <<key, value>>
  pc,                 \* position of the command's own goroutine
  exit,               \* "running", or how the process ended
  regions,            \* getAccountSummary: the region list it ranges over
  tasks,              \* one record per launched GetDeployedInstances goroutine
  received,           \* getAccountSummary: receives done by the join loop
  accSum,             \* the AccountSummary held by the command
  u,                  \* Prompt's receiver: the snapshot shown to the operator
  answer,             \* what the operator typed at the prompt
  instanceMap,        \* terminate / modify: requested id -> found instance
  instanceRegionMap,  \* terminate: region -> ids to terminate there
  todo,               \* keys of the map being ranged over, not yet visited
  cur,                \* key of the current iteration
  confirmed,          \* terminate: regions whose confirmation was "Yes"
  batches,            \* one record per call of a dispatch function
  out,                \* lines printed so far
  held,               \* single query: the instances the provider holds
  qpc,                \* single query: position in GetDeployedInstances
  result,             \* single query: result.Reservations[..].Instances
  instance,           \* single query: the loop's `instance`
  classified,         \* single query: the slice the loop appends to
  rSummary,           \* single query: the RegionSummary to send
  model               \* status: the Bubble Tea model (summary, cursor, selected)

vars == <<cmd, regionsFlag, instances, force, tags, pc, exit, regions, tasks,
          received, accSum, u, answer, instanceMap, instanceRegionMap, todo,
          cur, confirmed, batches, out, held, qpc, result, instance,
          classified, rSummary, model>>

inputs == <<cmd, regionsFlag, instances, force, tags>>
collectVars == <<regions, tasks, received>>
groupVars == <<instanceMap, instanceRegionMap, todo, cur, confirmed>>
queryVars == <<held, qpc, result, instance, classified, rSummary, model>>

\* The zero value of a cursor, and the model of a command that has none.
ZeroCursor == [region |-> 0, instance |-> 0]

NoModel == [summary |-> <<>>, cursor |-> ZeroCursor, selected |-> {}]

\* start and stop run startStop with their action, and so does hibernate;
\* terminate and modify have their own handlers.
Commands == {InstanceStart, InstanceStop, InstanceHibernate, "terminate", "modify"}

StartStopCommands == {InstanceStart, InstanceStop, InstanceHibernate}

\* The action each command hands to getAccountSummary: its own for start,
\* stop, hibernate and status, none for terminate and modify.
CollectAction(c) ==
  IF c \in StartStopCommands \cup {InstanceStatus} THEN c ELSE NoAction

RECURSIVE SeqsUpTo(_, _)
\* All sequences over S of length at most n.
SeqsUpTo(S, n) ==
  IF n = 0 THEN {<<>>}
  ELSE LET shorter == SeqsUpTo(S, n - 1)
       IN shorter \cup {Append(q, x) : q \in shorter, x \in S}

\* The instance-id argument lists tried (each id stands for a well-formed
\* one): none, one id, ids of two regions, an id no region holds next to one
\* that exists, two ids of one region.
InstanceArgs ==
  {<<>>, <<"i-aaa">>, <<"i-bbb", "i-ccc">>, <<"i-aaa", "i-zzz">>, <<"i-ccc", "i-aaa">>}

\* What the operator may type at Prompt's Scanln.
Answers == {"Y", "y", "n", ""}

\* validateInstanceArgs, the Args check of terminate and modify.
validateInstanceArgs(args, regs) == ~(Len(args) < 1 /\ Len(regs) = 0)

NoKey == "-"

\* Before the command's handler has done anything.
Started ==
  /\ pc = "resolve"
  /\ exit = "running"
  /\ regions = <<>>
  /\ tasks = <<>>
  /\ received = 0
  /\ accSum = <<>>
  /\ u = <<>>
  /\ answer = NoKey
  /\ instanceMap = <<>>
  /\ instanceRegionMap = <<>>
  /\ todo = {}
  /\ cur = NoKey
  /\ confirmed = {}
  /\ batches = <<>>
  /\ out = {}

\* A command run against the provider's Inventory, without --tag.
Init ==
  /\ cmd \in Commands
  /\ regionsFlag \in SeqsUpTo(RegionNames, MaxRegions)
  /\ instances \in InstanceArgs
  /\ force \in BOOLEAN
  /\ tags = {}
  /\ cmd # "terminate" => force = FALSE
  /\ cmd \in {"terminate", "modify"} => validateInstanceArgs(instances, regionsFlag)
  /\ Started
  /\ held = <<>>
  /\ qpc = "idle"
  /\ result = <<>>
  /\ instance = ZeroInstance
  /\ classified = <<>>
  /\ rSummary = <<>>
  /\ model = NoModel

Running == exit = "running"

\* log.Fatal: the process ends with status 1, whatever its goroutines were doing.
Fatal ==
  /\ exit' = "exit1"
  /\ UNCHANGED <<inputs, queryVars, pc, collectVars, accSum, u, answer, groupVars, batches, out>>

Line(kind, subject) == [kind |-> kind, subject |-> subject]

\* -------------------------------------------------------------- GetRegions

\* As NeedsDiscovery, but asking the provider whatever the list.
NeedsDiscoveryAlways(regs) == TRUE

\* `if len(regions) == 0`: the region list is empty, GetRegions is called.
NeedsDiscovery(regs) == Len(regs) = 0

\* GetRegions answered by the provider: the codes of all enabled regions.
GetRegionsOK ==
  /\ Running /\ pc = "resolve" /\ NeedsDiscovery(regionsFlag)
  /\ regions' = AllRegions
  /\ pc' = "launch"
  /\ UNCHANGED <<inputs, queryVars, exit, tasks, received, accSum, u, answer, groupVars, batches, out>>

\* DescribeRegions failed: an API error is logged, any other error is not,
\* and the nil list is returned.
GetRegionsError ==
  /\ Running /\ pc = "resolve" /\ NeedsDiscovery(regionsFlag)
  /\ regions' = <<>>
  /\ pc' = "launch"
  /\ \E isAPIError \in BOOLEAN :
       out' = IF isAPIError THEN out \cup {Line("log", "DescribeRegions")} ELSE out
  /\ UNCHANGED <<inputs, queryVars, exit, tasks, received, accSum, u, answer, groupVars, batches>>

\* LoadDefaultConfig failed in GetRegions.
GetRegionsFatal ==
  /\ Running /\ pc = "resolve" /\ NeedsDiscovery(regionsFlag)
  /\ Fatal

\* -------------------------------------------------------- getAccountSummary

\* A non-empty region list is used as given.
UseRegionsFlag ==
  /\ Running /\ pc = "resolve" /\ ~NeedsDiscovery(regionsFlag)
  /\ regions' = regionsFlag
  /\ pc' = "launch"
  /\ UNCHANGED <<inputs, queryVars, exit, tasks, received, accSum, u, answer, groupVars, batches, out>>

\* The goroutine started by the k-th iteration of `for _, r := range regions`.
NewTask(regs, k) ==
  [region |-> regs[k], pc |-> "config", Instances |-> <<>>, err |-> "", sends |-> 0]

\* How many goroutines the launch loop starts.
LaunchCount(regs) == Len(regs)

\* As JoinCount, but returning after the first receive.
JoinCountFirst(regs) == IF Len(regs) > 0 THEN 1 ELSE 0

\* How many receives the join loop `for range regions` performs.
JoinCount(regs) == Len(regs)

\* One iteration of the launch loop: go GetDeployedInstances(...).
Launch ==
  /\ Running /\ pc = "launch" /\ Len(tasks) < LaunchCount(regions)
  /\ tasks' = Append(tasks, NewTask(regions, Len(tasks) + 1))
  /\ UNCHANGED <<inputs, queryVars, pc, exit, regions, received, accSum, u, answer, groupVars, batches, out>>

\* The launch loop is over; the join loop begins.
LaunchDone ==
  /\ Running /\ pc = "launch" /\ Len(tasks) >= LaunchCount(regions)
  /\ pc' = "join"
  /\ UNCHANGED <<inputs, queryVars, exit, collectVars, accSum, u, answer, groupVars, batches, out>>

\* ---------------------------------------------------- GetDeployedInstances

TaskStep(i, t) ==
  /\ tasks' = [tasks EXCEPT ![i] = t]
  /\ UNCHANGED <<inputs, queryVars, pc, exit, regions, received, accSum, u, answer, groupVars, batches, out>>

\* As OnDescribeError, but returning without the send.
OnDescribeErrorNoSend(t, call) == [t EXCEPT !.pc = "done", !.err = call]

\* A describe call returned an error: print it, send the summary, return.
OnDescribeError(t, call) == [t EXCEPT !.pc = "send", !.err = call]

\* What err.Error() of a failed describe call may read: the operation and
\* the provider's error, and for a failure to reach the endpoint also the
\* endpoint's address, which holds the region code.
ErrorTexts(call, region) == {Line(call, NoKey), Line(call, region)}

\* The error branch of a describe call in task i: fmt.Println(err.Error()),
\* then the send of rSummary as it stands.
TaskFail(i, call) ==
  /\ tasks' = [tasks EXCEPT ![i] = OnDescribeError(tasks[i], call)]
  /\ \E text \in ErrorTexts(call, tasks[i].region) : out' = out \cup {text}
  /\ UNCHANGED <<inputs, queryVars, pc, exit, regions, received, accSum, u, answer, groupVars, batches>>

\* config.LoadDefaultConfig(ctx, config.WithRegion(region))
TaskLoadConfig(i) ==
  /\ Running /\ tasks[i].pc = "config"
  /\ \/ TaskStep(i, [tasks[i] EXCEPT !.pc = "describe"])
     \/ Fatal

\* svc.DescribeInstances
TaskDescribeInstances(i) ==
  /\ Running /\ tasks[i].pc = "describe"
  /\ \/ TaskStep(i, [tasks[i] EXCEPT !.pc = "status"])
     \/ TaskFail(i, "DescribeInstances")

\* svc.DescribeInstanceStatus
TaskDescribeInstanceStatus(i) ==
  /\ Running /\ tasks[i].pc = "status"
  /\ \/ TaskStep(i, [tasks[i] EXCEPT !.pc = "spot"])
     \/ TaskFail(i, "DescribeInstanceStatus")

\* svc.DescribeSpotInstanceRequests, then the classification loop and the sort.
TaskDescribeSpot(i) ==
  /\ Running /\ tasks[i].pc = "spot"
  /\ \/ TaskStep(i, [tasks[i] EXCEPT
            !.pc = "send",
            !.Instances = BuildInstances(tasks[i].region, CollectAction(cmd), tags, instances)])
     \/ TaskFail(i, "DescribeSpotInstanceRequests")

\* The RegionSummary a task hands to the channel.
RegionSummary(t) == [Region |-> t.region, Instances |-> t.Instances]

\* As JoinAppend, but keeping empty summaries too.
JoinAppendAll(acc, regSum) == Append(acc, regSum)

\* As JoinAppend, but putting the received summary in front.
JoinPrepend(acc, regSum) ==
  IF Len(regSum.Instances) > 0 THEN <<regSum>> \o acc ELSE acc

\* The join loop's body: keep the received summary if it has instances.
JoinAppend(acc, regSum) ==
  IF Len(regSum.Instances) > 0 THEN Append(acc, regSum) ELSE acc

\* c <- rSummary meets regSum = <-c: the channel is unbuffered, so the send of
\* task i and one receive of the join loop are one step.
Deliver(i) ==
  /\ Running /\ pc = "join" /\ received < JoinCount(regions)
  /\ tasks[i].pc = "send"
  /\ tasks' = [tasks EXCEPT ![i].pc = "done", ![i].sends = @ + 1]
  /\ received' = received + 1
  /\ accSum' = JoinAppend(accSum, RegionSummary(tasks[i]))
  /\ UNCHANGED <<inputs, queryVars, pc, exit, regions, u, answer, groupVars, batches, out>>

\* The join loop is over: getAccountSummary returns accSum.
JoinReturn ==
  /\ Running /\ pc = "join" /\ received >= JoinCount(regions)
  /\ pc' = "collected"
  /\ UNCHANGED <<inputs, queryVars, exit, collectVars, accSum, u, answer, groupVars, batches, out>>

Collect ==
  \/ GetRegionsOK \/ GetRegionsError \/ GetRegionsFatal \/ UseRegionsFlag
  \/ Launch \/ LaunchDone \/ JoinReturn
  \/ \E i \in 1..Len(tasks) :
       \/ TaskLoadConfig(i) \/ TaskDescribeInstances(i)
       \/ TaskDescribeInstanceStatus(i) \/ TaskDescribeSpot(i) \/ Deliver(i)

\* ------------------------------------------------------ AccountSummary.Prompt

\* As PromptResult, but without the test of the answer.
PromptResultIgnoreAnswer(summary, s) == summary

\* The value Prompt returns once the operator has typed s.
PromptResult(summary, s) == IF s = "Y" THEN summary ELSE <<>>

\* As PromptEmpty, but falling through to the Scanln instead of exiting.
PromptEmptyFallsThrough ==
  /\ Running /\ pc = "collected" /\ cmd \in StartStopCommands
  /\ Len(accSum) = 0
  /\ u' = accSum
  /\ out' = out \cup {Line("No instances are available", CollectAction(cmd))}
  /\ pc' = "scan"
  /\ UNCHANGED <<inputs, queryVars, exit, collectVars, accSum, answer, groupVars, batches>>

\* Prompt on an empty summary: print the "no instances" label and os.Exit(0).
PromptEmpty ==
  /\ Running /\ pc = "collected" /\ cmd \in StartStopCommands
  /\ Len(accSum) = 0
  /\ u' = accSum
  /\ out' = out \cup {Line("No instances are available", CollectAction(cmd))}
  /\ exit' = "exit0"
  /\ UNCHANGED <<inputs, queryVars, pc, collectVars, accSum, answer, groupVars, batches>>

\* Prompt on a non-empty summary: print the tables and the question.
PromptShow ==
  /\ Running /\ pc = "collected" /\ cmd \in StartStopCommands
  /\ Len(accSum) # 0
  /\ u' = accSum
  /\ out' = out \cup {Line("Would you like to proceed? [Y/n]", CollectAction(cmd))}
  /\ pc' = "scan"
  /\ UNCHANGED <<inputs, queryVars, exit, collectVars, accSum, answer, groupVars, batches>>

\* fmt.Scanln(&s) returns with the operator's line; Prompt returns and
\* startStop assigns the result to accSum.
PromptScan ==
  /\ Running /\ pc = "scan"
  /\ \E s \in Answers :
       /\ answer' = s
       /\ accSum' = PromptResult(u, s)
  /\ pc' = "dispatch"
  /\ UNCHANGED <<inputs, queryVars, exit, collectVars, u, groupVars, batches, out>>

\* ------------------------------------------------------------------ batches

\* A call of one of the dispatch functions, with the provider calls it made,
\* what its first call returned (probe) and the error it returns (err).
NewBatch(fn, region, ids) ==
  [fn |-> fn, region |-> region, ids |-> ids, pc |-> "config",
   calls |-> <<>>, probe |-> "", err |-> "", state |-> <<>>]

\* A provider call as the dispatcher issued it.
Call(op, dryRun, ids, hibernate) ==
  [op |-> op, DryRun |-> dryRun, InstanceIds |-> ids, Hibernate |-> hibernate]

\* As Recommit, but dropping the hibernate flag.
RecommitPlainStop(input) == [input EXCEPT !.DryRun = FALSE, !.Hibernate = FALSE]

\* input.DryRun = aws.Bool(false): the input of the first call, re-used for
\* the second with nothing but the flag changed.
Recommit(input) == [input EXCEPT !.DryRun = FALSE]

\* Error codes that reach the caller as a smithy.APIError.
APIErrorCodes == {DryRunOperation, "UnauthorizedOperation", "IncorrectInstanceState"}

\* What a call with DryRun set may return: nil, the "would have succeeded"
\* code, another API error, or an error that is no API error.
DryRunOutcomes == {"", DryRunOperation, "UnauthorizedOperation", "RequestError"}

\* What a call with DryRun cleared may return.
CommitOutcomes == {"", "IncorrectInstanceState"}

\* As ShouldCommit, but for every API error code.
ShouldCommitAnyCode(err) == err # "" /\ err \in APIErrorCodes

\* As ShouldCommit, but for every error.
ShouldCommitAnyError(err) == err # ""

\* errors.As(err, &ae) && ae.ErrorCode() == DryRunOperation
ShouldCommit(err) == err # "" /\ err \in APIErrorCodes /\ err = DryRunOperation

BatchStep(b, rec) ==
  /\ batches' = [batches EXCEPT ![b] = rec]
  /\ UNCHANGED <<inputs, queryVars, pc, exit, collectVars, accSum, u, answer, groupVars, out>>

IDs(insts) == [i \in 1..Len(insts) |-> insts[i].ID]

\* ---------------------------------------------------------------- startStop

\* One iteration of `for _, regionSum := range accSum`: collect the ids of
\* the region and start the goroutine that calls StartStopInstance.
StartStopSpawn ==
  /\ Running /\ pc = "dispatch" /\ Len(batches) < Len(accSum)
  /\ LET regionSum == accSum[Len(batches) + 1]
     IN batches' = Append(batches,
          NewBatch("StartStopInstance", regionSum.Region, IDs(regionSum.Instances)))
  /\ UNCHANGED <<inputs, queryVars, pc, exit, collectVars, accSum, u, answer, groupVars, out>>

\* The loop is over: the spinner runs wg.Wait.
StartStopSpawned ==
  /\ Running /\ pc = "dispatch" /\ Len(batches) >= Len(accSum)
  /\ pc' = "wait"
  /\ UNCHANGED <<inputs, queryVars, exit, collectVars, accSum, u, answer, groupVars, batches, out>>

\* As StartStopOp, but treating every other action as a stop.
StartStopOpDefaultStop(act) ==
  IF act = InstanceStart THEN "StartInstances" ELSE "StopInstances"

\* The provider operation StartStopInstance uses for an action.
StartStopOp(action) ==
  IF action = InstanceStart THEN "StartInstances"
  ELSE IF action \in {InstanceStop, InstanceHibernate} THEN "StopInstances"
  ELSE "invalid action"

\* StartStopInstance: LoadDefaultConfig, then the switch on the action.
StartStopConfig(b) ==
  /\ Running /\ batches[b].fn = "StartStopInstance" /\ batches[b].pc = "config"
  /\ \/ BatchStep(b, IF StartStopOp(cmd) = "invalid action"
                     THEN [batches[b] EXCEPT !.pc = "returned", !.err = "invalid action"]
                     ELSE [batches[b] EXCEPT !.pc = "dryrun"])
     \/ Fatal

\* The batch after its first call, issued with DryRun set, returned err.
AfterDryRun(bt, call, err) ==
  [bt EXCEPT !.calls = Append(@, call),
             !.probe = err,
             !.err = err,
             !.pc = IF ShouldCommit(err) THEN "commit" ELSE "returned"]

\* The batch after the call re-issued with DryRun cleared returned err.
AfterCommit(bt, call, err) ==
  [bt EXCEPT !.calls = Append(@, call), !.err = err, !.pc = "returned"]

\* svc.StartInstances / svc.StopInstances with DryRun: aws.Bool(true)
StartStopDryRun(b) ==
  /\ Running /\ batches[b].fn = "StartStopInstance" /\ batches[b].pc = "dryrun"
  /\ \E err \in DryRunOutcomes :
       BatchStep(b, AfterDryRun(batches[b],
         Call(StartStopOp(cmd), TRUE, batches[b].ids, cmd = InstanceHibernate), err))

\* A types.InstanceStateChange.
StateChange(id, previous, current) ==
  [InstanceId |-> id, PreviousState |-> previous, CurrentState |-> current]

\* The state change the provider reports for an instance of a real call:
\* the one the action brings about, or none for an instance that was in the
\* target state already.
Transition(act, id, already) ==
  IF act = InstanceStart
  THEN (IF already THEN StateChange(id, "running", "running")
        ELSE StateChange(id, "stopped", "pending"))
  ELSE (IF already THEN StateChange(id, "stopped", "stopped")
        ELSE StateChange(id, "running", "stopping"))

\* result.StartingInstances / result.StoppingInstances of a real call for
\* ids, of which those in `already` were in the target state.
StateChanges(act, ids, already) ==
  [k \in 1..Len(ids) |-> Transition(act, ids[k], ids[k] \in already)]

\* input.DryRun = aws.Bool(false), and the same call again
StartStopCommit(b) ==
  /\ Running /\ batches[b].fn = "StartStopInstance" /\ batches[b].pc = "commit"
  /\ \E err \in CommitOutcomes, already \in SUBSET SeqToSet(batches[b].ids) :
       /\ err # "" => already = {}
       /\ BatchStep(b, [AfterCommit(batches[b],
            Recommit(batches[b].calls[1]), err)
            EXCEPT !.state = IF err = "" THEN StateChanges(cmd, batches[b].ids, already)
                             ELSE <<>>])

\* The ids whose state change the provider reports to a returned batch: those
\* of the committed call that were not in the target state; a dry run
\* changes nothing.
Changed(bt) ==
  {bt.state[k].InstanceId :
     k \in {n \in 1..Len(bt.state) : bt.state[n].PreviousState # bt.state[n].CurrentState}}

\* As StateChangeLine, but never telling an unchanged state apart.
StateChangeLineAlwaysChanged(sc) == Line("state changed", sc.InstanceId)

\* The line the goroutine prints for one returned state change.
StateChangeLine(sc) ==
  IF sc.PreviousState = sc.CurrentState
  THEN Line("was already in state", sc.InstanceId)
  ELSE Line("state changed", sc.InstanceId)

\* The goroutine prints the error or the state changes, then wg.Done().
StartStopReport(b) ==
  /\ Running /\ batches[b].fn = "StartStopInstance" /\ batches[b].pc = "returned"
  /\ out' = out \cup
       (IF batches[b].err # ""
        THEN {Line("Failed", batches[b].region)}
        ELSE {StateChangeLine(batches[b].state[k]) : k \in 1..Len(batches[b].state)})
  /\ batches' = [batches EXCEPT ![b].pc = "done"]
  /\ UNCHANGED <<inputs, queryVars, pc, exit, collectVars, accSum, u, answer, groupVars>>

\* As WaitGroupZero, but satisfied as soon as one goroutine is done.
WaitGroupAnyDone(bs) == bs = <<>> \/ \E b \in 1..Len(bs) : bs[b].pc = "done"

\* The WaitGroup's counter is zero: every wg.Add(1) has met its wg.Done().
WaitGroupZero(bs) == \A b \in 1..Len(bs) : bs[b].pc = "done"

\* wg.Wait returns once every goroutine is done; the spinner's Run returns
\* nil and startStop returns.
StartStopWait ==
  /\ Running /\ pc = "wait"
  /\ WaitGroupZero(batches)
  /\ pc' = "done"
  /\ exit' = "returned"
  /\ UNCHANGED <<inputs, queryVars, collectVars, accSum, u, answer, groupVars, batches, out>>

\* The spinner's Run fails ("Cannot render spinner"): log.Fatalf.
SpinnerFail ==
  /\ Running /\ pc = "wait"
  /\ Fatal

StartStop ==
  \/ PromptEmpty \/ PromptShow \/ PromptScan
  \/ StartStopSpawn \/ StartStopSpawned \/ StartStopWait \/ SpinnerFail
  \/ \E b \in 1..Len(batches) :
       \/ StartStopConfig(b) \/ StartStopDryRun(b)
       \/ StartStopCommit(b) \/ StartStopReport(b)

\* -------------------------------------------------------- terminateInstance

RECURSIVE Flatten(_)
\* Every instance of a summary, region by region, in order.
Flatten(acc) ==
  IF acc = <<>> THEN <<>> ELSE acc[1].Instances \o Flatten(Tail(acc))

\* The nil *aws.Instance of an id that no region returned.
Nil == <<>>

\* instanceMap after the loops over accSum: each requested id with the
\* instance found for it (the last one, should several carry the id) or nil.
BuildInstanceMap(acc, args) ==
  LET all == Flatten(acc)
  IN [id \in SeqToSet(args) |->
        LET at == {i \in 1..Len(all) : all[i].ID = id}
        IN IF at = {} THEN Nil
           ELSE Ptr(all[CHOOSE i \in at : \A j \in at : j <= i])]

\* As BuildInstanceMapShared, but with one loop variable for the whole nest
\* of loops: every found id points at the last instance of the summary.
BuildInstanceMapOneVariable(acc, args) ==
  LET all == Flatten(acc)
  IN [id \in SeqToSet(args) |->
        IF \E i \in 1..Len(all) : all[i].ID = id
        THEN Ptr(all[Len(all)]) ELSE Nil]

\* modifyInstances' instanceMap where `&i` is the address of one variable per
\* run of the inner loop (Go before 1.22): every id found in a RegionSummary
\* points at that loop's variable, which is left holding the last instance
\* of the RegionSummary.
BuildInstanceMapShared(acc, args) ==
  [id \in SeqToSet(args) |->
     LET at == {k \in 1..Len(acc) : \E x \in SeqToSet(acc[k].Instances) : x.ID = id}
     IN IF at = {} THEN Nil
        ELSE LET r == acc[CHOOSE k \in at : \A j \in at : j <= k]
             IN Ptr(r.Instances[Len(r.Instances)])]

\* As BuildInstanceRegionMap, but taking every instance of the summary,
\* requested or not.
BuildInstanceRegionMapAll(acc, args) ==
  LET all == Flatten(acc)
  IN [r \in {x.Region : x \in SeqToSet(all)} |->
        IDs(SelectSeq2(all, {x \in SeqToSet(all) : x.Region = r}, 1))]

\* instanceRegionMap after the loops over accSum: per region of a requested
\* and found instance, the ids appended in the order they were met.
BuildInstanceRegionMap(acc, args) ==
  LET all == Flatten(acc)
      hit == {x \in SeqToSet(all) : x.ID \in SeqToSet(args)}
  IN [r \in {x.Region : x \in hit} |->
        IDs(SelectSeq2(all, {x \in hit : x.Region = r}, 1))]

\* Lines 62-80: build instanceMap and instanceRegionMap from the summary.
TerminateGroup ==
  /\ Running /\ pc = "collected" /\ cmd = "terminate"
  /\ instanceMap' = BuildInstanceMap(accSum, instances)
  /\ instanceRegionMap' = BuildInstanceRegionMap(accSum, instances)
  /\ todo' = DOMAIN instanceRegionMap'
  /\ pc' = "t_range"
  /\ UNCHANGED <<inputs, queryVars, exit, collectVars, accSum, u, answer, cur, confirmed, batches, out>>

\* As MustConfirm, but never asking.
MustConfirmNever(f) == FALSE

\* Whether the loop body asks the operator before it terminates.
MustConfirm(f) == ~f

\* `for k, v := range instanceRegionMap`: the next key, in any order.
TerminateRange ==
  /\ Running /\ pc = "t_range"
  /\ \E k \in todo :
       /\ cur' = k
       /\ todo' = todo \ {k}
       /\ IF MustConfirm(force)
          THEN /\ pc' = "t_confirm"
               /\ UNCHANGED batches
          ELSE /\ pc' = "t_terminate"
               /\ batches' = Append(batches,
                    NewBatch("TerminateInstances", k, instanceRegionMap[k]))
  /\ UNCHANGED <<inputs, queryVars, exit, collectVars, accSum, u, answer, instanceMap,
                 instanceRegionMap, confirmed, out>>

\* As DeclineContinues, but leaving the loop.
DeclineReturns == "done"

\* `if !confirm { continue }`: on "No" the loop goes on with the next key.
DeclineContinues == "t_range"

\* huh.NewConfirm()...Run(): "Yes", "No", or the prompt fails.
TerminateConfirm ==
  /\ Running /\ pc = "t_confirm"
  /\ \/ /\ confirmed' = confirmed \cup {cur}
        /\ pc' = "t_terminate"
        /\ batches' = Append(batches,
             NewBatch("TerminateInstances", cur, instanceRegionMap[cur]))
        /\ UNCHANGED <<inputs, queryVars, exit, collectVars, accSum, u, answer, instanceMap,
                       instanceRegionMap, todo, cur, out>>
     \/ /\ pc' = DeclineContinues
        /\ UNCHANGED <<inputs, queryVars, exit, collectVars, accSum, u, answer, groupVars,
                       batches, out>>
     \/ Fatal

\* TerminateInstances: LoadDefaultConfig.
TerminateInstancesConfig(b) ==
  /\ Running /\ batches[b].fn = "TerminateInstances" /\ batches[b].pc = "config"
  /\ \/ BatchStep(b, [batches[b] EXCEPT !.pc = "call"])
     \/ Fatal

\* As TerminateDryRun, but with the flag set.
TerminateDryRunSet == TRUE

\* The DryRun field of the TerminateInstancesInput: it is not set.
TerminateDryRun == FALSE

\* The batch after svc.TerminateInstances returned err.
AfterTerminate(bt, call, err) ==
  [bt EXCEPT !.calls = Append(@, call), !.err = err, !.pc = "returned"]

\* svc.TerminateInstances(ctx, &ec2.TerminateInstancesInput{InstanceIds: instances})
TerminateInstancesCall(b) ==
  /\ Running /\ batches[b].fn = "TerminateInstances" /\ batches[b].pc = "call"
  /\ \E err \in {"", "UnauthorizedOperation"} :
       BatchStep(b, AfterTerminate(batches[b],
         Call("TerminateInstances", TerminateDryRun, batches[b].ids, FALSE), err))

\* log.Fatalf("Cannot terminate instances: %v", err)
TerminateFailed == Fatal

\* Back in the loop body: log.Fatalf on an error, else the success line.
TerminateAfter ==
  /\ Running /\ pc = "t_terminate"
  /\ batches # <<>> /\ batches[Len(batches)].pc = "returned"
  /\ IF batches[Len(batches)].err # ""
     THEN TerminateFailed
     ELSE /\ out' = out \cup {Line("successfully terminated", cur)}
          /\ batches' = [batches EXCEPT ![Len(batches)].pc = "done"]
          /\ pc' = "t_range"
          /\ UNCHANGED <<inputs, queryVars, exit, collectVars, accSum, u, answer, groupVars>>

\* The ids of instanceMap that stayed nil.
NotFound(m) == {k \in DOMAIN m : m[k] = Nil}

\* The range loop is over: report the ids that were not found, return.
TerminateNotFound ==
  /\ Running /\ pc = "t_range" /\ todo = {}
  /\ out' = out \cup {Line("could not be found", k) : k \in NotFound(instanceMap)}
  /\ pc' = "done"
  /\ exit' = "returned"
  /\ UNCHANGED <<inputs, queryVars, collectVars, accSum, u, answer, groupVars, batches>>

\* The spinner around the call fails to render: log.Fatalf as well.
TerminateSpinnerFail ==
  /\ Running /\ pc = "t_terminate"
  /\ Fatal

Terminate ==
  \/ TerminateGroup \/ TerminateRange \/ TerminateConfirm
  \/ TerminateAfter \/ TerminateSpinnerFail \/ TerminateNotFound
  \/ \E b \in 1..Len(batches) :
       TerminateInstancesConfig(b) \/ TerminateInstancesCall(b)

\* ----------------------------------------------------------- modifyInstances

\* Lines 64-77: build instanceMap from the summary; `&i` is the address of
\* the instance's own copy (Go 1.22 on) or of the inner loop's one variable.
ModifyGroup ==
  /\ Running /\ pc = "collected" /\ cmd = "modify"
  /\ \E perIteration \in BOOLEAN :
       instanceMap' = IF perIteration THEN BuildInstanceMap(accSum, instances)
                      ELSE BuildInstanceMapShared(accSum, instances)
  /\ todo' = DOMAIN instanceMap'
  /\ pc' = "m_range"
  /\ UNCHANGED <<inputs, queryVars, exit, collectVars, accSum, u, answer, instanceRegionMap,
                 cur, confirmed, batches, out>>

\* `for k, v := range instanceMap`: the next key, in any order; a nil entry
\* is reported and skipped, any other is handed to ModifyInstanceType.
ModifyRange ==
  /\ Running /\ pc = "m_range"
  /\ \E k \in todo :
       /\ cur' = k
       /\ todo' = todo \ {k}
       /\ IF instanceMap[k] = Nil
          THEN /\ out' = out \cup {Line("not found", k)}
               /\ UNCHANGED <<pc, batches>>
          ELSE /\ batches' = Append(batches,
                    NewBatch("ModifyInstanceType", instanceMap[k][1].Region, <<k>>))
               /\ pc' = "m_modify"
               /\ UNCHANGED out
  /\ UNCHANGED <<inputs, queryVars, exit, collectVars, accSum, u, answer, instanceMap,
                 instanceRegionMap, confirmed>>

\* ModifyInstanceType: LoadDefaultConfig.
ModifyInstanceTypeConfig(b) ==
  /\ Running /\ batches[b].fn = "ModifyInstanceType" /\ batches[b].pc = "config"
  /\ \/ BatchStep(b, [batches[b] EXCEPT !.pc = "dryrun"])
     \/ Fatal

\* svc.ModifyInstanceAttribute with DryRun: aws.Bool(true)
ModifyInstanceTypeDryRun(b) ==
  /\ Running /\ batches[b].fn = "ModifyInstanceType" /\ batches[b].pc = "dryrun"
  /\ \E err \in DryRunOutcomes :
       BatchStep(b, AfterDryRun(batches[b],
         Call("ModifyInstanceAttribute", TRUE, batches[b].ids, FALSE), err))

\* input.DryRun = aws.Bool(false), and the same call again
ModifyInstanceTypeCommit(b) ==
  /\ Running /\ batches[b].fn = "ModifyInstanceType" /\ batches[b].pc = "commit"
  /\ \E err \in CommitOutcomes :
       BatchStep(b, AfterCommit(batches[b],
         Recommit(batches[b].calls[1]), err))

\* Back in the loop body: an error is printed and ends the command.
ModifyAfter ==
  /\ Running /\ pc = "m_modify"
  /\ batches # <<>> /\ batches[Len(batches)].pc = "returned"
  /\ batches' = [batches EXCEPT ![Len(batches)].pc = "done"]
  /\ IF batches[Len(batches)].err # ""
     THEN /\ out' = out \cup {Line("error modifying instance", cur)}
          /\ pc' = "done"
          /\ exit' = "returned"
     ELSE /\ pc' = "m_range"
          /\ UNCHANGED <<out, exit>>
  /\ UNCHANGED <<inputs, queryVars, collectVars, accSum, u, answer, groupVars>>

\* The range loop is over: modifyInstances returns.
ModifyDone ==
  /\ Running /\ pc = "m_range" /\ todo = {}
  /\ pc' = "done"
  /\ exit' = "returned"
  /\ UNCHANGED <<inputs, queryVars, collectVars, accSum, u, answer, groupVars, batches, out>>

Modify ==
  \/ ModifyGroup \/ ModifyRange \/ ModifyAfter \/ ModifyDone
  \/ \E b \in 1..Len(batches) :
       \/ ModifyInstanceTypeConfig(b) \/ ModifyInstanceTypeDryRun(b)
       \/ ModifyInstanceTypeCommit(b)

\* ------------------------------------------------------------ specification

Next == Collect \/ StartStop \/ Terminate \/ Modify

Spec == Init /\ [][Next]_vars

\* Every goroutine that can take a step eventually takes one (the Go
\* scheduler), every provider call returns, and the operator answers.
FairSpec == Spec /\ WF_vars(Next)

\* Some dispatch goroutine whose StartStopInstance call has returned prints
\* its lines and runs its deferred wg.Done().
SomeReport == \E b \in 1..Len(batches) : StartStopReport(b)

\* The dispatch join under the Go scheduler: a goroutine whose call has
\* returned gets to finish, and a wg.Wait whose counter is zero returns.
JoinFairSpec == Spec /\ WF_vars(SomeReport) /\ WF_vars(StartStopWait)

\* ------------------------------------------- one GetDeployedInstances call
\* A single region query, pass by pass through its classification loop,
\* against any instances the provider may hold: for the properties of the
\* filters, of classification and of the sort.

\* Instances the provider may hold: one hibernated by the operator; one
\* without private address, hibernation options and zone entry; a running
\* spot instance whose last state reason is an earlier hibernation; one
\* without id and tags; one with the tags of the first, stopped by a
\* shutdown; one without Environment tag.
RawInstances ==
  { RawInstance(Ptr("i-aaa"), "stopped", Ptr(UserInitiatedHibernate),
                Ptr("10.0.0.1"), Ptr(TRUE), "", <<>>,
                <<Tag("Environment", "prod"), Tag("Name", "web")>>, Ptr("us-east-1a")),
    RawInstance(Ptr("i-bbb"), "running", <<>>, <<>>, <<>>, "", <<>>,
                <<Tag("Name", "api"), Tag("Environment", "dev")>>, <<>>),
    RawInstance(Ptr("i-ccc"), "running", Ptr(UserInitiatedHibernate),
                Ptr("10.0.0.3"), Ptr(FALSE), "spot", Ptr("sir-1"),
                <<Tag("Environment", "dev"), Tag("Name", "db")>>, Ptr("us-east-1b")),
    RawInstance(<<>>, "pending", <<>>, <<>>, <<>>, "", <<>>, <<>>, <<>>),
    RawInstance(Ptr("i-ddd"), "stopped", Ptr("Client.UserInitiatedShutdown"),
                Ptr("10.0.0.4"), Ptr(FALSE), "", <<>>,
                <<Tag("Environment", "prod"), Tag("Name", "web")>>, Ptr("us-east-1a")),
    RawInstance(Ptr("i-eee"), "stopped", <<>>, Ptr("10.0.0.5"), Ptr(TRUE), "", <<>>,
                <<Tag("Name", "api")>>, Ptr("us-east-1c")) }

\* The --tag arguments tried: none, one pair, two pairs.
TagArgs ==
  { {}, {<<"Environment", "dev">>},
    {<<"Environment", "prod">>, <<"Name", "web">>} }

\* The region the single query asks: the `region` argument of the call.
QueryRegion == regionsFlag[1]

\* The action the single query is made for.
action == CollectAction(cmd)

\* A region query about to make its DescribeInstances call.
QueryInit ==
  /\ cmd \in Commands \cup {InstanceStatus}
  /\ regionsFlag \in {<<r>> : r \in RegionNames}
  /\ instances \in InstanceArgs
  /\ force = FALSE
  /\ tags \in TagArgs
  /\ Started
  /\ held \in {h \in SeqsUpTo(RawInstances, MaxHeld) :
                 \A i, j \in 1..Len(h) : h[i] = h[j] => i = j}
  /\ qpc = "describe"
  /\ result = <<>>
  /\ instance = ZeroInstance
  /\ classified = <<>>
  /\ rSummary = [Region |-> QueryRegion, Instances |-> <<>>]
  /\ model = NoModel

QueryStep ==
  UNCHANGED <<inputs, pc, exit, collectVars, accSum, u, answer, groupVars,
              batches, out, held, model>>

\* svc.DescribeInstances(ctx, input) with the filters built from the
\* action, the tags and the ids.
QueryDescribeInstances ==
  /\ qpc = "describe"
  /\ result' = DescribeInstances(held, Filters(action, tags, instances))
  /\ qpc' = "classify"
  /\ UNCHANGED <<instance, classified, rSummary>>
  /\ QueryStep

\* One pass of `for _, inst := range res.Instances`.
QueryClassify ==
  /\ qpc = "classify" /\ Len(classified) < Len(result)
  /\ instance' = Classify(instance, result[Len(classified) + 1], QueryRegion,
                          DescribeInstanceStatus(held, action), SpotRequests)
  /\ classified' = Append(classified, instance')
  /\ UNCHANGED <<qpc, result, rSummary>>
  /\ QueryStep

\* sort.SliceStable(instances, ...); rSummary.Instances = instances
QuerySort ==
  /\ qpc = "classify" /\ Len(classified) >= Len(result)
  /\ rSummary' = [rSummary EXCEPT !.Instances = SortSliceStable(classified)]
  /\ qpc' = "send"
  /\ UNCHANGED <<result, instance, classified>>
  /\ QueryStep

QueryNext == QueryDescribeInstances \/ QueryClassify \/ QuerySort

QuerySpec == QueryInit /\ [][QueryNext]_vars

\* ------------------------------------------------- one StartStopInstance call
\* A single call of StartStopInstance with any action string, for what the
\* function does with an action outside its switch.

\* Action strings handed to StartStopInstance: the three it knows, the other
\* two the program has, and two it has not.
DispatchActions ==
  {InstanceStart, InstanceStop, InstanceHibernate, InstanceStatus, NoAction,
   "terminate", "restart"}

\* StartStopInstance(region, action, instanceIDs) has just been called.
DispatchInit ==
  /\ cmd \in DispatchActions
  /\ regionsFlag = <<>>
  /\ instances = <<>>
  /\ force = FALSE
  /\ tags = {}
  /\ pc = "call"
  /\ exit = "running"
  /\ regions = <<>>
  /\ tasks = <<>>
  /\ received = 0
  /\ accSum = <<>>
  /\ u = <<>>
  /\ answer = NoKey
  /\ instanceMap = <<>>
  /\ instanceRegionMap = <<>>
  /\ todo = {}
  /\ cur = NoKey
  /\ confirmed = {}
  /\ \E r \in RegionNames, ids \in InstanceArgs \ {<<>>} :
       batches = <<NewBatch("StartStopInstance", r, ids)>>
  /\ out = {}
  /\ held = <<>>
  /\ qpc = "idle"
  /\ result = <<>>
  /\ instance = ZeroInstance
  /\ classified = <<>>
  /\ rSummary = <<>>
  /\ model = NoModel

DispatchNext ==
  \E b \in 1..Len(batches) :
    StartStopConfig(b) \/ StartStopDryRun(b) \/ StartStopCommit(b)

DispatchSpec == DispatchInit /\ [][DispatchNext]_vars

\* ---------------------------------------------------- status: model.Update
\* The interactive status command: initialModel, then one Update per key.

MaxInstances == 2

\* The instance lists a region may show: its first n instances.
InstanceLists == {[k \in 1..n |-> k] : n \in 1..MaxInstances}

\* What getAccountSummary(regs) may return: for the regions asked (all of
\* them if none is given) the summaries of those with instances, each once,
\* in any order.
Summaries(regs) ==
  LET asked == IF Len(regs) = 0 THEN RegionNames ELSE SeqToSet(regs)
  IN {q \in SeqsUpTo([Region : asked, Instances : InstanceLists], MaxRegions) :
        \A i, j \in 1..Len(q) : q[i].Region = q[j].Region => i = j}

\* initialModel(regions): the snapshot, the zero cursor, nothing selected.
initialModel(acc) == [summary |-> acc, cursor |-> ZeroCursor, selected |-> {}]

\* tea.NewProgram(initialModel(regions)) is about to receive its first key.
StatusInit ==
  /\ cmd = InstanceStatus
  /\ regionsFlag \in {q \in SeqsUpTo(RegionNames, MaxRegions) :
                        \A i, j \in 1..Len(q) : q[i] = q[j] => i = j}
  /\ instances = <<>>
  /\ force = FALSE
  /\ tags = {}
  /\ pc = "update"
  /\ exit = "running"
  /\ regions = <<>>
  /\ tasks = <<>>
  /\ received = 0
  /\ accSum = <<>>
  /\ u = <<>>
  /\ answer = NoKey
  /\ instanceMap = <<>>
  /\ instanceRegionMap = <<>>
  /\ todo = {}
  /\ cur = NoKey
  /\ confirmed = {}
  /\ batches = <<>>
  /\ out = {}
  /\ held = <<>>
  /\ qpc = "idle"
  /\ result = <<>>
  /\ instance = ZeroInstance
  /\ classified = <<>>
  /\ rSummary = <<>>
  /\ \E acc \in Summaries(regionsFlag) : model = initialModel(acc)

\* Update returns the model m2; e is "running" unless the program ends.
Updated(m2, e) ==
  /\ Running /\ pc = "update"
  /\ model' = m2
  /\ exit' = e
  /\ UNCHANGED <<inputs, pc, collectVars, accSum, u, answer, groupVars, batches,
                 out, held, qpc, result, instance, classified, rSummary>>

\* m.summary[m.cursor.region] is an element of the slice (Go indexes from 0;
\* any other index is a run-time panic).
RegionIndexOK(m) == 0 <= m.cursor.region /\ m.cursor.region < Len(m.summary)

\* case "ctrl+c", "q"
KeyQuit == Updated(model, "returned")

\* case "up", "k"
KeyUp ==
  Updated(IF model.cursor.instance > 0
          THEN [model EXCEPT !.cursor.instance = @ - 1] ELSE model, "running")

\* case "down", "j": the test indexes m.summary with the cursor's region.
KeyDown ==
  IF RegionIndexOK(model)
  THEN Updated(IF model.cursor.instance <
                    Len(model.summary[model.cursor.region + 1].Instances) - 1
               THEN [model EXCEPT !.cursor.instance = @ + 1] ELSE model, "running")
  ELSE Updated(model, "panic")

\* case "left", "h", "shift+tab"
KeyLeft ==
  Updated([model EXCEPT !.cursor =
             [instance |-> 0,
              region |-> IF model.cursor.region > 0 THEN model.cursor.region - 1
                         ELSE Len(model.summary) - 1]], "running")

\* case "right", "l", "tab"
KeyRight ==
  Updated([model EXCEPT !.cursor =
             [instance |-> 0,
              region |-> IF model.cursor.region < Len(model.summary) - 1
                         THEN model.cursor.region + 1 ELSE 0]], "running")

\* case "enter", " ": toggle the cursor's position in m.selected.
KeySelect ==
  Updated([model EXCEPT !.selected =
             IF model.cursor \in @ THEN @ \ {model.cursor}
             ELSE @ \cup {model.cursor}], "running")

\* case "r": a new snapshot of the regions now shown and an empty selection;
\* the cursor is kept as it is.
KeyRefresh ==
  \E acc \in Summaries([k \in 1..Len(model.summary) |-> model.summary[k].Region]) :
    Updated([model EXCEPT !.summary = initialModel(acc).summary,
                          !.selected = initialModel(acc).selected], "running")

StatusNext ==
  KeyQuit \/ KeyUp \/ KeyDown \/ KeyLeft \/ KeyRight \/ KeySelect \/ KeyRefresh

StatusSpec == StatusInit /\ [][StatusNext]_vars

\* ------------------------------------------------------------------- claims

RECURSIVE SumSends(_)
\* The number of sends done by all tasks together.
SumSends(ts) == IF ts = <<>> THEN 0 ELSE ts[1].sends + SumSends(Tail(ts))

\* getAccountSummary is past its join loop.
Collected == pc \notin {"resolve", "launch", "join"}

TaskIds == 1..Len(tasks)

BatchIds == 1..Len(batches)

\* C1: in the inventory collection one region task is launched per entry of
\* the region list (the k-th task for the k-th entry), a task that has
\* finished - after success or after an error of any of the three describe
\* calls - has sent exactly one RegionSummary and no task ever sends twice,
\* every receive of the join matches one send, and the join returns only
\* when it has received once from every launched task, all of them finished.
C1_OneTaskOneSendOneReceive ==
  /\ Len(tasks) <= Len(regions)
  /\ \A i \in TaskIds :
       /\ tasks[i].region = regions[i]
       /\ tasks[i].sends <= 1
       /\ tasks[i].pc = "done" <=> tasks[i].sends = 1
  /\ received = SumSends(tasks)
  /\ pc \notin {"resolve", "launch"} => Len(tasks) = Len(regions)
  /\ Collected =>
       /\ received = Len(regions)
       /\ \A i \in TaskIds : tasks[i].pc = "done" /\ tasks[i].sends = 1

\* C1 witness: a collection over two regions has returned, one task having
\* failed a describe call and the other having succeeded.
C1_Witness ==
  /\ pc = "collected" /\ Len(regions) = 2
  /\ \E i, j \in TaskIds :
       /\ tasks[i].err = "DescribeInstanceStatus" /\ tasks[i].sends = 1
       /\ tasks[j].err = "" /\ tasks[j].sends = 1 /\ Len(tasks[j].Instances) > 0

\* C2: once the region tasks are being launched, collection eventually
\* returns with every task joined (all steps being taken fairly, every
\* provider call returning).
C2_CollectionReturns ==
  (pc = "launch") ~> (Collected /\ \A i \in TaskIds : tasks[i].pc = "done")

\* One batch of a dry-run-then-commit function obeys the protocol: its first
\* call carries DryRun; a second call exists only after the first returned
\* DryRunOperation, is the last one and has DryRun cleared; after any other
\* error of the first call no further call is made and that error is what
\* the function returns.
ProbeThenCommit(bt) ==
  /\ Len(bt.calls) <= 2
  /\ Len(bt.calls) >= 1 => bt.calls[1].DryRun
  /\ Len(bt.calls) = 2 => ~bt.calls[2].DryRun /\ bt.probe = DryRunOperation
  /\ bt.pc = "commit" => Len(bt.calls) = 1 /\ bt.probe = DryRunOperation
  /\ bt.pc \in {"returned", "done"} /\ bt.err # "invalid action" =>
       /\ Len(bt.calls) >= 1
       /\ bt.probe = DryRunOperation => Len(bt.calls) = 2
       /\ bt.probe \notin {"", DryRunOperation} =>
            Len(bt.calls) = 1 /\ bt.err = bt.probe

\* C3: every StartStopInstance call (start, stop, hibernate) follows the
\* dry-run protocol: first call with DryRun set; exactly one more call, with
\* DryRun cleared, after DryRunOperation; none after any other error, which
\* is returned.
C3_StartStopDryRunProtocol ==
  \A b \in BatchIds :
    batches[b].fn = "StartStopInstance" => ProbeThenCommit(batches[b])

\* C3 witness: one StartStopInstance call has returned after its dry run got
\* DryRunOperation and a second, real call was made, and another has
\* returned the other error of its dry run after a single call.
C3_Witness ==
  \E a, b \in BatchIds :
    /\ batches[a].fn = "StartStopInstance" /\ batches[a].pc = "returned"
    /\ batches[a].probe = DryRunOperation /\ Len(batches[a].calls) = 2
    /\ batches[b].fn = "StartStopInstance" /\ batches[b].pc = "returned"
    /\ batches[b].probe = "UnauthorizedOperation" /\ Len(batches[b].calls) = 1
    /\ batches[b].err = "UnauthorizedOperation"

C5_ModifyDryRunProtocol ==
  \A b \in BatchIds :
    batches[b].fn = "ModifyInstanceType" =>
      /\ ProbeThenCommit(batches[b])
      /\ \A k \in 1..Len(batches[b].calls) :
           batches[b].calls[k].op = "ModifyInstanceAttribute"
      /\ batches[b].pc \in {"returned", "done"} =>
           (Len(batches[b].calls) = 2 <=> batches[b].probe = DryRunOperation)

\* C5 witness: a ModifyInstanceType call has returned after a probe that got
\* DryRunOperation and one real call, and an earlier one for another
\* instance did the same.
C5_Witness ==
  \E a, b \in BatchIds :
    /\ a # b
    /\ batches[a].fn = "ModifyInstanceType" /\ batches[a].pc = "done"
    /\ batches[b].fn = "ModifyInstanceType" /\ batches[b].pc = "returned"
    /\ batches[b].probe = DryRunOperation /\ Len(batches[b].calls) = 2
    /\ ~batches[b].calls[2].DryRun

\* The ids for which a confirmation step has completed with an affirmative
\* answer: those of the snapshot Prompt showed when the answer was "Y", and
\* those of the regions whose terminate confirmation was "Yes".
ConfirmedIds ==
  (IF answer = "Y" THEN {x.ID : x \in SeqToSet(Flatten(u))} ELSE {})
  \cup UNION {SeqToSet(instanceRegionMap[r]) : r \in confirmed}

\* The ids a batch has put into provider calls.
CalledIds(bt) == UNION {SeqToSet(bt.calls[k].InstanceIds) : k \in 1..Len(bt.calls)}

Prompted == answer # NoKey

\* C7: Prompt asks only about a non-empty snapshot, and once the operator
\* has answered, startStop holds that very snapshot (same regions, same
\* instances, same order) if the answer was "Y" and an empty one after any
\* other answer, in which case no dispatch call is ever made.
C7_PromptReturnsSnapshotOrNothing ==
  Prompted =>
    /\ Len(u) > 0
    /\ answer = "Y" => accSum = u
    /\ answer # "Y" => accSum = <<>> /\ batches = <<>>

\* C7 witness: the operator answered "Y" to a snapshot of two regions and
\* the dispatch loop has started a batch for each.
C7_Witness ==
  /\ answer = "Y" /\ Len(u) = 2 /\ accSum = u
  /\ Len(batches) = 2 /\ pc = "wait"

\* The line Prompt prints for an empty summary.
NoInstancesLine == Line("No instances are available", CollectAction(cmd))

CountRegion(acc, r) == Cardinality({k \in 1..Len(acc) : acc[k].Region = r})

\* The tasks for region r that got all describe calls answered and found
\* at least one matching instance.
Productive(r) ==
  {i \in TaskIds : tasks[i].region = r /\ tasks[i].err = ""
                   /\ Len(tasks[i].Instances) > 0}

\* C9: an error of a describe call does not end the process: the task goes
\* on to deliver its summary, which is empty; and the AccountSummary that
\* collection returns holds exactly the summaries of the tasks that did not
\* fail and matched at least one instance (with all their matches), and
\* none for a task whose describe call failed.
C9_PartialFailureKeepsOtherRegions ==
  /\ [](/\ \A i \in TaskIds : tasks[i].err # "" => Len(tasks[i].Instances) = 0
        /\ pc = "collected" =>
             /\ \A r \in RegionNames :
                  CountRegion(accSum, r) = Cardinality(Productive(r))
             /\ \A i \in TaskIds :
                  /\ tasks[i].err = "" =>
                       tasks[i].Instances =
                         BuildInstances(tasks[i].region, CollectAction(cmd), tags, instances)
                  /\ i \in Productive(tasks[i].region) =>
                       RegionSummary(tasks[i]) \in SeqToSet(accSum))
  /\ [][\A i \in TaskIds :
          (i \in 1..Len(tasks') /\ tasks[i].err = "" /\ tasks'[i].err # "") =>
            (exit' = "running" /\ tasks'[i].pc = "send")]_vars

\* C9 witness: collection over two regions has returned; the query of
\* us-east-1 failed, and the summary holds eu-west-1 alone.
C9_Witness ==
  /\ pc = "collected" /\ regions = <<"us-east-1", "eu-west-1">>
  /\ tasks[1].err = "DescribeInstances"
  /\ Len(accSum) = 1 /\ accSum[1].Region = "eu-west-1"

\* C10: no error inside a region's inventory task ends the process: while
\* tasks are being launched and joined the process keeps running.
C10_RegionErrorsNeverAbort ==
  pc \in {"launch", "join"} => exit = "running"

\* The steps the goroutine of batch b can take.
BatchGoroutine(b) ==
  \/ StartStopConfig(b) \/ StartStopDryRun(b)
  \/ StartStopCommit(b) \/ StartStopReport(b)

\* What the goroutine of a finished batch has printed.
Reported(bt) ==
  IF bt.err # "" THEN Line("Failed", bt.region) \in out
  ELSE \A k \in 1..Len(bt.state) : StateChangeLine(bt.state[k]) \in out

\* C11 (start, stop, hibernate): every region of the confirmed snapshot gets
\* its own batch whatever happens to the others; a batch that is not finished
\* can always take its next step while the process runs, so no batch waits
\* for another; the step in which StartStopInstance returns an error for one
\* batch changes nothing but that batch; and startStop returns only when
\* every batch is finished, each failed one reported as failed and each
\* other one with the state change of every instance of its real call.
C11_DispatchIndependence ==
  /\ [](cmd \in StartStopCommands =>
          /\ Len(batches) <= Len(accSum)
          /\ pc \in {"wait", "done"} => Len(batches) = Len(accSum)
          /\ \A b \in BatchIds :
               /\ batches[b].region = accSum[b].Region
               /\ batches[b].ids = IDs(accSum[b].Instances)
               /\ (Running /\ batches[b].pc # "done") => ENABLED BatchGoroutine(b)
               /\ batches[b].pc = "done" => Reported(batches[b])
          /\ exit = "returned" => \A b \in BatchIds : batches[b].pc = "done")
  /\ [][(cmd \in StartStopCommands) =>
          (\A b \in BatchIds :
             (batches[b].pc # "returned" /\ batches'[b].pc = "returned"
              /\ batches'[b].err # "") =>
               (exit' = exit /\ pc' = pc /\ accSum' = accSum /\ out' = out
                /\ (\A a \in BatchIds \ {b} : batches[a] = batches'[a])))]_vars

\* C11 witness: a stop confirmed for two regions has returned; the batch of
\* one region failed at its real call and was reported as failed, the batch
\* of the other went through and its instance's state change was printed.
C11_Witness ==
  /\ cmd = InstanceStop /\ exit = "returned" /\ Len(batches) = 2
  /\ batches[1].err = "IncorrectInstanceState" /\ Len(batches[1].calls) = 2
  /\ Line("Failed", batches[1].region) \in out
  /\ batches[2].err = "" /\ Len(batches[2].calls) = 2
  /\ \A id \in SeqToSet(batches[2].ids) : Line("state changed", id) \in out

\* C12 (terminate, modify-type): a failed provider call aborts only its own
\* batch - when the command has ended after the call for one region
\* (terminate) or one instance (modify-type) failed, every other region or
\* instance of the command has been visited by its loop all the same.
C12_FailureAbortsOnlyItsBatch ==
  (cmd \in {"terminate", "modify"} /\ exit # "running"
   /\ \E b \in BatchIds : batches[b].err # "") => todo = {}

\* How many times id occurs in the lists of a family of id lists.
Occurrences(lists, id) ==
  Cardinality({kn \in UNION {{<<k, n>> : n \in DOMAIN lists[k]} : k \in DOMAIN lists} :
                 lists[kn[1]][kn[2]] = id})

\* The instances of a summary.
Snapshot(acc) == SeqToSet(Flatten(acc))

\* startStop's dispatch loop has built every per-region id list.
StartStopGrouped == cmd \in StartStopCommands /\ pc \in {"wait", "done"}

\* terminateInstance has built instanceRegionMap.
TerminateGrouped ==
  cmd = "terminate" /\ pc \in {"t_range", "t_confirm", "t_terminate", "done"}

\* The id lists startStop hands to its goroutines, by position in the loop.
StartStopLists == [b \in BatchIds |-> batches[b].ids]

\* C13: the per-region id lists built before dispatch partition the
\* snapshot by region. In startStop every instance id of the confirmed
\* snapshot occurs exactly once in all the lists together, in a list
\* dispatched to the instance's region, and the lists hold no other id; in
\* terminateInstance the same holds of instanceRegionMap for the requested
\* ids the snapshot holds.
C13_GroupingPartitionsByRegion ==
  /\ StartStopGrouped =>
       /\ \A x \in Snapshot(accSum) :
            /\ Occurrences(StartStopLists, x.ID) = 1
            /\ \A b \in BatchIds :
                 x.ID \in SeqToSet(batches[b].ids) => batches[b].region = x.Region
       /\ \A b \in BatchIds :
            SeqToSet(batches[b].ids) \subseteq {x.ID : x \in Snapshot(accSum)}
  /\ TerminateGrouped =>
       LET matched == {x \in Snapshot(accSum) : x.ID \in SeqToSet(instances)}
       IN /\ \A x \in matched :
               /\ Occurrences(instanceRegionMap, x.ID) = 1
               /\ \A r \in DOMAIN instanceRegionMap :
                    x.ID \in SeqToSet(instanceRegionMap[r]) => r = x.Region
          /\ \A r \in DOMAIN instanceRegionMap :
               SeqToSet(instanceRegionMap[r]) \subseteq {x.ID : x \in matched}

\* The regions with at least one instance in a summary.
MatchedRegions(acc) == {acc[k].Region : k \in {n \in 1..Len(acc) : Len(acc[n].Instances) > 0}}

\* C14 (start, stop, hibernate): batches go only to regions with at least
\* one matched instance in the confirmed snapshot, no two batches go to the
\* same region, every such region has its batch once the dispatch loop is
\* over, and a batch is one dry-run call plus at most one real call.
C14_OneBatchPerDistinctRegion ==
  cmd \in StartStopCommands =>
    /\ \A b \in BatchIds :
         /\ batches[b].region \in MatchedRegions(accSum)
         /\ Len(batches[b].calls) <= 2
         /\ Len(batches[b].calls) >= 1 => batches[b].calls[1].DryRun
         /\ Len(batches[b].calls) = 2 => ~batches[b].calls[2].DryRun
    /\ \A a, b \in BatchIds : batches[a].region = batches[b].region => a = b
    /\ pc \in {"wait", "done"} =>
         \A r \in MatchedRegions(accSum) : \E b \in BatchIds : batches[b].region = r

\* How many times x occurs in the sequence q.
Count(q, x) == Cardinality({i \in 1..Len(q) : q[i] = x})

\* C15: the instances of the RegionSummary a region task delivers are the
\* classified instances, each as often as it was classified, in ascending
\* (environment, name) order: of two adjacent instances a, b either
\* a.environment < b.environment, or the environments are equal and
\* a.name <= b.name.
C15_SummarySortedByEnvironmentName ==
  qpc = "send" =>
    LET sorted == rSummary.Instances
    IN /\ Len(sorted) = Len(classified)
       /\ \A x \in SeqToSet(classified) : Count(sorted, x) = Count(classified, x)
       /\ \A k \in 1..(Len(sorted) - 1) :
            \/ StrRank(sorted[k].Environment) < StrRank(sorted[k + 1].Environment)
            \/ /\ sorted[k].Environment = sorted[k + 1].Environment
               /\ StrRank(sorted[k].Name) <= StrRank(sorted[k + 1].Name)

\* C15 witness: a query classified two instances in the order (prod, web),
\* (dev, api) and the summary to send has them the other way round.
C15_Witness ==
  /\ qpc = "send" /\ Len(classified) = 2
  /\ classified[1].Environment = "prod" /\ classified[2].Environment = "dev"
  /\ rSummary.Instances = <<classified[2], classified[1]>>

\* The tasks for region r that delivered at least one instance.
DeliveredSome(r) ==
  {i \in TaskIds : tasks[i].region = r /\ tasks[i].pc = "done"
                   /\ Len(tasks[i].Instances) > 0}

\* C16: no RegionSummary without instances is ever in the AccountSummary,
\* and the AccountSummary collection returns has a RegionSummary for a
\* region if and only if a task for that region delivered at least one
\* instance.
C16_NoEmptyRegionSummary ==
  /\ \A k \in 1..Len(accSum) : Len(accSum[k].Instances) > 0
  /\ pc = "collected" =>
       \A r \in RegionNames :
         (\E k \in 1..Len(accSum) : accSum[k].Region = r) <=> DeliveredSome(r) # {}

\* C16 witness: a start over both regions has collected; the query of
\* eu-west-1 was answered and matched nothing, and the summary holds
\* us-east-1 alone.
C16_Witness ==
  /\ cmd = InstanceStart /\ pc = "collected" /\ Len(regions) = 2
  /\ \E i \in TaskIds :
       /\ tasks[i].region = "eu-west-1" /\ tasks[i].err = ""
       /\ tasks[i].Instances = <<>> /\ tasks[i].pc = "done"
  /\ Len(accSum) = 1 /\ accSum[1].Region = "us-east-1"

\* The eligible states of an action as the rule states them.
EligibleStates(act) ==
  IF act = InstanceStart THEN {"stopped"}
  ELSE IF act \in {InstanceStop, InstanceHibernate} THEN {"running"}
  ELSE {"pending", "running", "shutting-down", "stopping", "stopped"}

\* C17: every instance a region query gets back under the state filter it
\* built, classifies and puts into its summary has a raw state of the
\* eligible set of the action - start: {stopped}; stop and hibernate:
\* {running}; status, no action (terminate, modify): the five live states.
C17_EligibleStateRule ==
  /\ \A k \in 1..Len(result) : result[k].State \in EligibleStates(action)
  /\ Len(classified) <= Len(result)
  /\ qpc = "send" => Len(rSummary.Instances) = Len(result)

\* The raw instance carries the tag.
HasTag(inst, key, value) ==
  \E t \in SeqToSet(inst.Tags) : t.Key = key /\ t.Value = value

\* C18: every instance a region query gets back and puts into its summary
\* carries a matching tag for every (key, value) pair of the tags map, and
\* has an id of the explicit id list when that list is not empty; the
\* summary shows the Name and Environment asked for and only ids asked for.
C18_TagAndIdRules ==
  /\ \A k \in 1..Len(result) :
       /\ \A kv \in tags : HasTag(result[k], kv[1], kv[2])
       /\ Len(instances) # 0 =>
            /\ result[k].InstanceId # <<>>
            /\ result[k].InstanceId[1] \in SeqToSet(instances)
  /\ qpc = "send" =>
       /\ Len(rSummary.Instances) = Len(result)
       /\ \A x \in SeqToSet(rSummary.Instances) :
            /\ \A kv \in tags :
                 /\ kv[1] = "Name" => x.Name = kv[2]
                 /\ kv[1] = "Environment" => x.Environment = kv[2]
            /\ Len(instances) # 0 => x.ID \in SeqToSet(instances)

\* C18 witness: asked with two tag pairs and an id list in a region with
\* two instances, the query has a summary holding the one that matches.
C18_Witness ==
  /\ qpc = "send" /\ Cardinality(tags) = 2 /\ Len(instances) # 0
  /\ Len(held) = 2 /\ Len(rSummary.Instances) = 1
  /\ rSummary.Instances[1].ID = "i-aaa"

\* C19: classification is history-free - the Instance appended for a raw
\* instance is the one classification yields for that raw instance alone
\* (with the region and the status and spot lists), whatever was classified
\* before it; a missing private address, hibernation option, id or zone
\* entry leaves the zero value.
C19_ClassifyHistoryFree ==
  \A k \in 1..Len(classified) :
    classified[k] = Classify(ZeroInstance, result[k], QueryRegion,
                             DescribeInstanceStatus(held, action), SpotRequests)

\* C20: the status of a classified instance is "hibernated" if and only if
\* its raw state is stopped and its state-reason code is that of a
\* user-initiated hibernation; in every other case it is the raw state.
C20_StatusDerivation ==
  /\ \A k \in 1..Len(classified) :
       LET hib == /\ result[k].State = "stopped"
                  /\ result[k].StateReason = Ptr(UserInitiatedHibernate)
       IN /\ classified[k].Status = "hibernated" <=> hib
          /\ ~hib => classified[k].Status = result[k].State
  /\ qpc = "send" =>
       \A x \in SeqToSet(rSummary.Instances) : x \in SeqToSet(classified)

\* C20 witness: a query has classified a stopped instance with the
\* hibernation code as hibernated and a running one with the same code as
\* running.
C20_Witness ==
  /\ Len(classified) = 2
  /\ result[1].State = "stopped" /\ classified[1].Status = "hibernated"
  /\ result[2].State = "running" /\ classified[2].Status = "running"
  /\ result[2].StateReason = Ptr(UserInitiatedHibernate)

\* The lines due for the state changes a batch got back: "was already in
\* state" for equal previous and current state, "state changed" otherwise.
DueLines(bt) ==
  {Line(IF bt.state[k].PreviousState = bt.state[k].CurrentState
        THEN "was already in state" ELSE "state changed",
        bt.state[k].InstanceId) : k \in 1..Len(bt.state)}

\* C21: only a real call that succeeded returns state changes, one per
\* instance of the batch; and the step in which the goroutine of a batch
\* that returned without error reports prints, for each returned state
\* change, "was already in state" exactly when its previous state equals
\* its current state and "state changed" otherwise - nothing else, and no
\* failure line.
C21_IdempotenceReporting ==
  /\ [](\A b \in BatchIds :
          /\ batches[b].state # <<>> =>
               /\ batches[b].err = "" /\ Len(batches[b].calls) = 2
               /\ Len(batches[b].state) = Len(batches[b].ids)
          /\ (batches[b].pc = "done" /\ batches[b].err = "") =>
               DueLines(batches[b]) \subseteq out)
  /\ [][(cmd \in StartStopCommands) =>
          (\A b \in BatchIds :
             (batches[b].pc = "returned" /\ batches'[b].pc = "done"
              /\ batches[b].err = "") =>
               (out' = out \cup DueLines(batches[b])
                /\ Line("Failed", batches[b].region) \notin (out' \ out)))]_vars

\* C21 witness: a stop over two regions has reported: the instance of one
\* batch had been stopped already and is reported as such, the instance of
\* the other is reported with its state change; no failure line.
C21_Witness ==
  /\ cmd = InstanceStop /\ Len(batches) = 2
  /\ \A b \in BatchIds :
       batches[b].pc = "done" /\ batches[b].err = "" /\ Len(batches[b].state) = 1
  /\ batches[1].state[1].PreviousState = batches[1].state[1].CurrentState
  /\ batches[2].state[1].PreviousState # batches[2].state[1].CurrentState
  /\ Line("was already in state", batches[1].ids[1]) \in out
  /\ Line("state changed", batches[2].ids[1]) \in out
  /\ \A r \in RegionNames : Line("Failed", r) \notin out

\* C22: a failed region discovery is fatal - a command given no region list
\* gets past region resolution only with the regions the provider listed,
\* never with an empty list; in particular it does not go on to report that
\* no instances are available and end with status 0.
C22_DiscoveryFailureIsFatal ==
  (Len(regionsFlag) = 0 /\ pc # "resolve") => regions # <<>>

\* C23: with a non-empty explicit region list the resolution step does
\* nothing but take that list verbatim (same entries, same order) - no
\* discovery call, which could fail, log or end the process - and one task
\* per entry queries it; with an empty list the step is a discovery call,
\* and the regions queried are those it returned.
C23_RegionResolution ==
  /\ [](pc # "resolve" =>
          /\ Len(regionsFlag) # 0 => regions = regionsFlag
          /\ Len(regionsFlag) = 0 => regions \in {AllRegions, <<>>}
          /\ \A i \in TaskIds : i <= Len(regions) /\ tasks[i].region = regions[i]
          /\ pc # "launch" => Len(tasks) = Len(regions))
  /\ [][(pc = "resolve" /\ Len(regionsFlag) # 0) =>
          (regions' = regionsFlag /\ pc' = "launch" /\ exit' = exit /\ out' = out)]_vars
  /\ [][(pc = "resolve" /\ Len(regionsFlag) = 0) =>
          (\/ regions' = AllRegions /\ pc' = "launch"
           \/ regions' = <<>> /\ pc' = "launch"
           \/ exit' = "exit1")]_vars

\* C23 witness: a command given us-east-1, eu-west-1 - not the provider's
\* order - has collected with one task per entry, in that order.
C23_Witness ==
  /\ regionsFlag = <<"us-east-1", "eu-west-1">> /\ pc = "collected"
  /\ regions = regionsFlag /\ Len(tasks) = 2
  /\ tasks[1].region = "us-east-1" /\ tasks[2].region = "eu-west-1"

\* The ids of the instances the region tasks found.
FoundIds == UNION {{x.ID : x \in SeqToSet(tasks[i].Instances)} : i \in TaskIds}

\* The requested ids that matched no instance in any region.
Unmatched == SeqToSet(instances) \ FoundIds

\* What the loop over the found instances has not visited yet: regions in
\* terminate, found instances in modify.
FoundLeft ==
  IF cmd = "modify" THEN {k \in todo : instanceMap[k] # Nil} ELSE todo

\* Id is reported as not found (in terminate's or in modify's words).
ReportedNotFound(id) ==
  Line("could not be found", id) \in out \/ Line("not found", id) \in out

\* C24: when a command has returned, every requested id that matched no
\* instance in any region has been reported as not found; and such a report
\* comes after all processing of the found instances - once an id is
\* reported as not found, no region or found instance is left to visit and
\* every dispatch batch is finished.
C24_NotFoundReportedLast ==
  /\ exit = "returned" /\ (\A b \in BatchIds : batches[b].err = "") =>
       \A id \in Unmatched : ReportedNotFound(id)
  /\ (\E id \in SeqToSet(instances) : ReportedNotFound(id)) =>
       /\ FoundLeft = {}
       /\ \A b \in BatchIds : batches[b].pc = "done"

\* C25: a StartStopInstance call with an action other than start, stop and
\* hibernate makes no provider call, neither dry-run nor real, returns no
\* state change, and what it returns is the "invalid action" error; a call
\* with one of the three actions never returns that error.
C25_InvalidActionFailsLoudly ==
  \A b \in BatchIds :
    batches[b].fn = "StartStopInstance" =>
      IF cmd \in {InstanceStart, InstanceStop, InstanceHibernate}
      THEN batches[b].err # "invalid action"
      ELSE /\ batches[b].calls = <<>> /\ batches[b].state = <<>>
           /\ batches[b].pc \in {"config", "returned"}
           /\ batches[b].pc = "returned" => batches[b].err = "invalid action"

\* C25 witness: StartStopInstance called with "status" has returned the
\* "invalid action" error without any provider call.
C25_Witness ==
  /\ cmd = InstanceStatus /\ pc = "call"
  /\ batches[1].pc = "returned" /\ batches[1].err = "invalid action"
  /\ batches[1].calls = <<>>

\* C26: in the AccountSummary collection builds, no instance id occurs at two
\* places (within one RegionSummary or across RegionSummaries) and no two
\* RegionSummaries carry the same region code.
C26_InstanceIdsUnique ==
  /\ \A m, n \in 1..Len(Flatten(accSum)) :
       Flatten(accSum)[m].ID = Flatten(accSum)[n].ID => m = n
  /\ \A m, n \in 1..Len(accSum) : accSum[m].Region = accSum[n].Region => m = n

\* The region tasks of the inventory collection that have not yet handed
\* over their summary.
Outstanding == {i \in TaskIds : tasks[i].pc # "done"}

\* C27 (start, stop, hibernate): whenever a StartStopInstance call exists,
\* started or further on, no inventory region task is outstanding: one task
\* was launched per entry of the region list, the join has received from
\* every one of them, collection has returned, and the confirmation step has
\* returned the summary on the answer "Y".
C27_PhasesNeverOverlap ==
  \A b \in BatchIds :
    batches[b].fn = "StartStopInstance" =>
      /\ Outstanding = {}
      /\ Len(tasks) = Len(regions) /\ received = Len(regions)
      /\ pc \in {"dispatch", "wait", "done"}
      /\ answer = "Y"

\* C27 witness: a stop over two regions; both region tasks have delivered,
\* the operator has answered Y, and the first StartStopInstance call has made
\* its dry-run call while the second has not yet been started.
C27_Witness ==
  /\ cmd = InstanceStop /\ Len(regions) = 2 /\ Len(tasks) = 2
  /\ Outstanding = {} /\ answer = "Y"
  /\ pc = "dispatch" /\ Len(batches) = 1 /\ Len(accSum) = 2
  /\ Len(batches[1].calls) = 1

\* The failure records of a region that name it: the lines printed for a
\* failed query that carry the region.
FailureRecords(i) ==
  {l \in out : l.kind = tasks[i].err /\ l.subject = tasks[i].region}

\* C28: for every region task whose inventory query returned an error there
\* is exactly one failure record that names the task's region.
C28_OneFailureRecordPerRegion ==
  \A i \in TaskIds : tasks[i].err # "" => Cardinality(FailureRecords(i)) = 1

\* C29: every Instance a region query classifies, and every Instance of the
\* RegionSummary it is about to send, has as its region the region code the
\* query was started with, which is the RegionSummary's own region, whatever
\* the provider response holds (an id, a zone of another region, or neither).
C29_RegionSetByQuery ==
  /\ rSummary.Region = QueryRegion
  /\ \A k \in 1..Len(classified) : classified[k].Region = QueryRegion
  /\ \A k \in 1..Len(rSummary.Instances) :
       rSummary.Instances[k].Region = rSummary.Region

\* C29 witness: a query of eu-west-1 is about to send a summary of two
\* instances, one from a response entry without id and zone, one whose
\* response entry names a zone of us-east-1; both carry eu-west-1.
C29_Witness ==
  /\ qpc = "send" /\ QueryRegion = "eu-west-1" /\ Len(rSummary.Instances) = 2
  /\ \E k \in 1..2 : /\ result[k].InstanceId = <<>>
                     /\ classified[k].Region = "eu-west-1"
  /\ \E k \in 1..2 : /\ classified[k].AZ = "us-east-1b"
                     /\ classified[k].Region = "eu-west-1"

\* The instances of s with the environment and the name of x, in s's order.
SameKey(s, x) ==
  SelectSeq(s, LAMBDA y : y.Environment = x.Environment /\ y.Name = x.Name)

\* C30: the sort of a region's instances is stable - the instances with one
\* environment and one name stand in the RegionSummary in the order in which
\* the classification loop took them from the provider response.
C30_SortIsStable ==
  qpc = "send" =>
    \A x \in SeqToSet(classified) :
      SameKey(rSummary.Instances, x) = SameKey(classified, x)

\* C30 witness: the response listed i-ddd before i-aaa, both (prod, web),
\* and the summary to send has i-ddd before i-aaa.
C30_Witness ==
  /\ qpc = "send" /\ Len(result) = 2
  /\ result[1].InstanceId = Ptr("i-ddd") /\ result[2].InstanceId = Ptr("i-aaa")
  /\ classified[1].Environment = classified[2].Environment
  /\ classified[1].Name = classified[2].Name
  /\ rSummary.Instances[1].ID = "i-ddd" /\ rSummary.Instances[2].ID = "i-aaa"

\* C31: the AccountSummary is built in the order of delivery - every receive
\* of the join is the hand-over of one task that was ready to send, and it
\* leaves the summary as it was (nothing matched) or puts that task's
\* RegionSummary after all those received before; the order of the region
\* list plays no part.
C31_CompletionOrder ==
  [][(pc = "join" /\ received' # received) =>
       (\E i \in TaskIds :
          /\ tasks[i].pc = "send" /\ tasks'[i].pc = "done"
          /\ \A j \in TaskIds \ {i} : tasks'[j] = tasks[j]
          /\ received' = received + 1
          /\ accSum' = IF Len(tasks[i].Instances) > 0
                       THEN Append(accSum, RegionSummary(tasks[i]))
                       ELSE accSum)]_vars

\* C31 witness: the region list is us-east-1, eu-west-1 and the collected
\* summary has eu-west-1 first: its task delivered first.
C31_Witness ==
  /\ pc = "collected" /\ regions = <<"us-east-1", "eu-west-1">>
  /\ Len(accSum) = 2
  /\ accSum[1].Region = "eu-west-1" /\ accSum[2].Region = "us-east-1"

\* C32: a StartStopInstance or ModifyInstanceType call that has returned
\* without error has issued a call with the dry-run flag cleared, and that
\* call succeeded: its calls are the dry-run call and the real one.
C32_SuccessOnlyAfterRealCall ==
  \A b \in BatchIds :
    (/\ batches[b].fn \in {"StartStopInstance", "ModifyInstanceType"}
     /\ batches[b].pc \in {"returned", "done"} /\ batches[b].err = "") =>
      /\ Len(batches[b].calls) = 2
      /\ ~batches[b].calls[2].DryRun

\* C33: the real call of StartStopInstance is its dry-run call with only the
\* dry-run flag changed: the same operation, the instance ids the call was
\* started with, and for hibernate the hibernate flag still set on a
\* StopInstances request.
C33_CommitIsProbeCall ==
  \A b \in BatchIds :
    (batches[b].fn = "StartStopInstance" /\ Len(batches[b].calls) >= 1) =>
      /\ batches[b].calls[1].DryRun
      /\ batches[b].calls[1].InstanceIds = batches[b].ids
      /\ batches[b].calls[1].Hibernate = (cmd = InstanceHibernate)
      /\ Len(batches[b].calls) = 2 =>
           /\ ~batches[b].calls[2].DryRun
           /\ batches[b].calls[2].op = batches[b].calls[1].op
           /\ batches[b].calls[2].InstanceIds = batches[b].calls[1].InstanceIds
           /\ batches[b].calls[2].Hibernate = batches[b].calls[1].Hibernate
           /\ cmd = InstanceHibernate =>
                (batches[b].calls[2].Hibernate /\ batches[b].calls[2].op = "StopInstances")

\* C33 witness: in a hibernate a batch has made both calls, the second with
\* the dry-run flag cleared, the hibernate flag set and the ids of the first.
C33_Witness ==
  /\ cmd = InstanceHibernate
  /\ \E b \in BatchIds :
       /\ Len(batches[b].calls) = 2 /\ batches[b].calls[2].Hibernate
       /\ ~batches[b].calls[2].DryRun /\ batches[b].calls[2].InstanceIds # <<>>
       /\ batches[b].calls[2].InstanceIds = batches[b].calls[1].InstanceIds

\* Every StartStopInstance call that was started has returned.
AllCallsReturned == \A b \in BatchIds : batches[b].pc \in {"returned", "done"}

\* C34 (start, stop, hibernate): startStop returns only when every dispatch
\* goroutine it started is finished, whether its call failed or not; and
\* once startStop waits and every StartStopInstance call has returned,
\* startStop eventually returns.
C34_DispatchJoin ==
  /\ []((cmd \in StartStopCommands /\ exit = "returned") =>
          (Len(batches) = Len(accSum) /\ WaitGroupZero(batches)))
  /\ (cmd \in StartStopCommands /\ pc = "wait" /\ AllCallsReturned)
       ~> (exit = "returned")

\* The region tasks whose three describe calls were answered and matched at
\* least one instance: what they deliver is fixed by the command's inputs and
\* the provider's answers.
Answered ==
  {i \in TaskIds :
     /\ tasks[i].err = ""
     /\ BuildInstances(regions[i], CollectAction(cmd), tags, instances) # <<>>}

\* The RegionSummary of region task i for the provider's answers.
Expected(i) ==
  [Region |-> regions[i],
   Instances |-> BuildInstances(regions[i], CollectAction(cmd), tags, instances)]

\* C35: whatever the interleaving of the region tasks, the AccountSummary
\* collection returns holds exactly the RegionSummaries the provider's
\* answers determine - one for every task that was answered and matched
\* something, with that task's region and instance sequence - so two runs
\* with the same answers differ at most in the order of the summaries.
C35_ContentIndependentOfScheduling ==
  (pc = "collected" /\ exit = "running") =>
    /\ Len(accSum) = Cardinality(Answered)
    /\ \A i \in Answered :
         Count(accSum, Expected(i)) =
           Cardinality({j \in Answered : regions[j] = regions[i]})
    /\ \A k \in 1..Len(accSum) : \E i \in Answered : accSum[k] = Expected(i)

\* C35 witness: for the region list eu-west-1, us-east-1 with both regions
\* answered, collection has returned both summaries, that of us-east-1 first.
C35_Witness ==
  /\ pc = "collected" /\ regions = <<"eu-west-1", "us-east-1">>
  /\ Answered = {1, 2}
  /\ accSum = <<Expected(2), Expected(1)>>

\* C36 (modify): every ModifyInstanceType call is made for one requested id
\* in a region in which the snapshot found an instance with that id.
C36_ModifyUsesOwnRegion ==
  \A b \in BatchIds :
    batches[b].fn = "ModifyInstanceType" =>
      /\ Len(batches[b].ids) = 1
      /\ batches[b].ids[1] \in SeqToSet(instances)
      /\ \E x \in Snapshot(accSum) :
           x.ID = batches[b].ids[1] /\ x.Region = batches[b].region

\* C36 witness: modify for i-bbb and i-ccc, found in eu-west-1 and
\* us-east-1; both modify calls were made, each in its instance's region.
C36_Witness ==
  /\ cmd = "modify" /\ instances = <<"i-bbb", "i-ccc">> /\ Len(batches) = 2
  /\ \E a, b \in BatchIds :
       /\ batches[a].ids = <<"i-bbb">> /\ batches[a].region = "eu-west-1"
       /\ batches[b].ids = <<"i-ccc">> /\ batches[b].region = "us-east-1"
       /\ Len(batches[a].calls) = 2 /\ Len(batches[b].calls) = 2

\* C37 (terminate, modify): the ids handed to TerminateInstances and
\* ModifyInstanceType, and the ids of every provider call they make, are
\* ids that were given as arguments and that the snapshot holds.
C37_OnlyArgumentIds ==
  \A b \in BatchIds :
    batches[b].fn \in {"TerminateInstances", "ModifyInstanceType"} =>
      SeqToSet(batches[b].ids) \cup CalledIds(batches[b])
        \subseteq SeqToSet(instances) \cap {x.ID : x \in Snapshot(accSum)}

\* C37 witness: terminate --force for i-aaa and i-zzz: the snapshot holds
\* i-aaa, and the one call made is for i-aaa alone.
C37_Witness ==
  /\ cmd = "terminate" /\ force /\ instances = <<"i-aaa", "i-zzz">>
  /\ Len(batches) = 1 /\ batches[1].calls # <<>>
  /\ CalledIds(batches[1]) = {"i-aaa"}

\* The regions terminateInstance's loop is through with.
Visited == {r \in DOMAIN instanceRegionMap : r \notin todo /\ r # cur}

\* C38 (terminate without --force): a TerminateInstances call is made for a
\* region only after the operator confirmed that very region; the step in
\* which the operator declines makes no call and takes the loop back to its
\* head with the regions still to visit untouched; and at the head of the
\* loop, with a region left, the next region is always taken up.
C38_ConfirmationPerRegion ==
  /\ []((cmd = "terminate" /\ ~force) =>
          /\ \A b \in BatchIds : batches[b].region \in confirmed
          /\ (Running /\ pc = "t_range" /\ todo # {}) => ENABLED TerminateRange)
  /\ [][(cmd = "terminate" /\ ~force /\ pc = "t_confirm"
         /\ confirmed' = confirmed /\ exit' = exit) =>
          (pc' = "t_range" /\ batches' = batches /\ todo' = todo)]_vars

\* C38 witness: of two regions the operator declined the one asked first and
\* confirmed the other, whose TerminateInstances call has been made; there is
\* no call for the declined region.
C38_Witness ==
  /\ cmd = "terminate" /\ ~force /\ pc = "t_terminate"
  /\ \E r \in Visited : r \notin confirmed
  /\ cur \in confirmed /\ Len(batches) = 1
  /\ batches[1].region = cur /\ Len(batches[1].calls) = 1

\* C39: in the status model no key event indexes the summary out of range,
\* and whenever the summary is non-empty the cursor points at an existing
\* entry: 0 <= cursor.region < number of regions and 0 <= cursor.instance <
\* number of instances of that region.
C39_CursorInBounds ==
  /\ exit # "panic"
  /\ Len(model.summary) > 0 =>
       /\ RegionIndexOK(model)
       /\ 0 <= model.cursor.instance
       /\ model.cursor.instance < Len(model.summary[model.cursor.region + 1].Instances)

====
